---- MODULE Spec2Model ----
(***************************************************************************)
(* Aegis gateway: the policy engine (internal/policy/policy.go) with its   *)
(* hot-reload watcher and lock-protected store, and the gateway request    *)
(* pipeline (internal/gateway/gateway.go) with its audit collaborator      *)
(* (pkg/telemetry).                                                        *)
(***************************************************************************)
EXTENDS Naturals, Integers, Sequences, FiniteSets, TLC

(***************************************************************************)
(* Bounds of the model.                                                    *)
(***************************************************************************)
\* filesystem changes made to the policy directory during one run
MaxFsOps == 2
\* concurrent Evaluate calls
NumEvaluators == 1
\* errors the notification library may deliver on watcher.Errors
MaxWatchErrors == 1

(***************************************************************************)
(* Values of interface{}: YAML and JSON scalars keep their dynamic type.   *)
(* A string is a sequence of one-character strings, so that the byte-wise  *)
(* prefix test of checkConditions can be computed.                         *)
(***************************************************************************)
\* a float64 is held as its count of halves: Num(n) is n, Half(h) is h/2
Num(n) == [t |-> "num", v |-> 2 * n]
Half(h) == [t |-> "num", v |-> h]
Str(s) == [t |-> "str", v |-> s]
List(l) == [t |-> "list", v |-> l]

RECURSIVE Text(_)
\* the Go string held by a sequence of characters
Text(cs) == IF cs = <<>> THEN "" ELSE Head(cs) \o Text(Tail(cs))

RECURSIVE Digits(_)
Digits(n) == IF n < 10
             THEN <<"0", "1", "2", "3", "4", "5", "6", "7", "8", "9">>[n + 1]
             ELSE Digits(n \div 10) \o Digits(n % 10)

\* fmt's %.0f rounds to the nearest integer, a tie to the even one
RoundHalfEven(h) ==
    IF h % 2 = 0 THEN h \div 2
    ELSE IF (h \div 2) % 2 = 0 THEN h \div 2 ELSE (h \div 2) + 1

\* fmt's %.0f of the float64 h/2; the sign of a negative value is kept
FormatFloat0(h) ==
    IF h < 0 THEN "-" \o Digits(0 - RoundHalfEven(h)) ELSE Digits(RoundHalfEven(h))

HrDocs == <<"/", "h", "r", "/">>
HrFile == <<"/", "h", "r", "/", "e">>
LegalFile == <<"/", "l", "/", "c">>

(***************************************************************************)
(* Policy, AgentPolicy, ToolAllowance                                      *)
(***************************************************************************)
ToolAllowance(tool, actions, conditions) ==
    [Tool |-> tool, Actions |-> actions, Conditions |-> conditions]

AgentPolicy(id, allow) == [ID |-> id, Allow |-> allow]

Policy(version, agents) == [Version |-> version, Agents |-> agents]

\* map[string]interface{}: a nil map (the key is absent from the document) reads
\* like an empty one, and Evaluate tells the two apart
NilMap == [isNil |-> TRUE, m |-> <<>>]
Map(m) == [isNil |-> FALSE, m |-> m]

Has(m, k) == k \in DOMAIN m

(***************************************************************************)
(* checkConditions: nil, or the error whose text becomes the reason.       *)
(***************************************************************************)
NoError == [err |-> FALSE, msg |-> ""]
Errorf(msg) == [err |-> TRUE, msg |-> msg]

\* the numeric type switch: float64, int and int64 are numbers
IsNumber(x) == x.t = "num"

CheckMaxAmount(conditions, params) ==
    IF Has(conditions, "max_amount") /\ Has(params, "amount")
    THEN IF ~IsNumber(params["amount"]) THEN Errorf("amount must be a number")
         ELSE IF ~IsNumber(conditions["max_amount"])
              THEN Errorf("max_amount must be a number")
         ELSE IF params["amount"].v > conditions["max_amount"].v
              THEN Errorf("Amount exceeds max_amount="
                          \o FormatFloat0(conditions["max_amount"].v))
         ELSE NoError
    ELSE NoError

\* a currencies condition that fails a request without a currency
CheckCurrenciesRequired(conditions, params) ==
    IF Has(conditions, "currencies") /\ conditions["currencies"].t = "list"
    THEN IF ~Has(params, "currency") \/ params["currency"].t # "str"
         THEN Errorf("currency must be a string")
         ELSE IF \E i \in 1..Len(conditions["currencies"].v) :
                    /\ conditions["currencies"].v[i].t = "str"
                    /\ conditions["currencies"].v[i].v = params["currency"].v
              THEN NoError
         ELSE Errorf("Currency " \o Text(params["currency"].v)
                     \o " not in allowed currencies")
    ELSE NoError

CheckCurrencies(conditions, params) ==
    IF Has(conditions, "currencies") /\ conditions["currencies"].t = "list"
       /\ Has(params, "currency")
    THEN IF params["currency"].t # "str" THEN Errorf("currency must be a string")
         ELSE IF \E i \in 1..Len(conditions["currencies"].v) :
                    /\ conditions["currencies"].v[i].t = "str"
                    /\ conditions["currencies"].v[i].v = params["currency"].v
              THEN NoError
         ELSE Errorf("Currency " \o Text(params["currency"].v)
                     \o " not in allowed currencies")
    ELSE NoError

HasPrefix(s, prefix) ==
    ~(Len(s) < Len(prefix) \/ SubSeq(s, 1, Len(prefix)) # prefix)

CheckFolderPrefix(conditions, params) ==
    IF Has(conditions, "folder_prefix") /\ conditions["folder_prefix"].t = "str"
       /\ Has(params, "path")
    THEN IF params["path"].t # "str" THEN Errorf("path must be a string")
         ELSE IF ~HasPrefix(params["path"].v, conditions["folder_prefix"].v)
              THEN Errorf("Path must start with prefix "
                          \o Text(conditions["folder_prefix"].v))
         ELSE NoError
    ELSE NoError

checkConditions(conditions, params) ==
    IF CheckMaxAmount(conditions, params).err
    THEN CheckMaxAmount(conditions, params)
    ELSE IF CheckCurrencies(conditions, params).err
    THEN CheckCurrencies(conditions, params)
    ELSE CheckFolderPrefix(conditions, params)

(***************************************************************************)
(* Evaluate, one allowance / one agent entry at a time.                    *)
(***************************************************************************)
Decision(allowed, reason) == [allowed |-> allowed, reason |-> reason]

\* the inner loop over allow.Actions
ActionAllowed(allow, action) ==
    \E i \in 1..Len(allow.Actions) : allow.Actions[i] = action

\* the three tests that make an allowance the one that decides the call
Matches(agentPolicy, allow, req) ==
    /\ agentPolicy.ID = req.agentID
    /\ allow.Tool = req.tool
    /\ ActionAllowed(allow, req.action)

\* what a matching allowance returns
Decide(allow, req) ==
    IF ~allow.Conditions.isNil /\ checkConditions(allow.Conditions.m, req.params).err
    THEN Decision(FALSE, checkConditions(allow.Conditions.m, req.params).msg)
    ELSE Decision(TRUE, "")

\* index of the first allowance of the entry that matches, 0 when none does
FirstAllow(agentPolicy, req) ==
    IF \E j \in 1..Len(agentPolicy.Allow) : Matches(agentPolicy, agentPolicy.Allow[j], req)
    THEN CHOOSE j \in 1..Len(agentPolicy.Allow) :
            /\ Matches(agentPolicy, agentPolicy.Allow[j], req)
            /\ \A k \in 1..(j - 1) : ~Matches(agentPolicy, agentPolicy.Allow[k], req)
    ELSE 0

\* the final return with the action and the tool in each other's place
DefaultDenySwapped(req) ==
    Decision(FALSE, "Agent " \o req.agentID \o " is not allowed to perform action "
                    \o req.tool \o " on tool " \o req.action)

DefaultDeny(req) ==
    Decision(FALSE, "Agent " \o req.agentID \o " is not allowed to perform action "
                    \o req.action \o " on tool " \o req.tool)

\* an entry scanned for an allowance that passes, a failing one not ending the scan
ScanAgentAnyPass(agentPolicy, req) ==
    IF \E j \in 1..Len(agentPolicy.Allow) :
          /\ Matches(agentPolicy, agentPolicy.Allow[j], req)
          /\ Decide(agentPolicy.Allow[j], req).allowed
    THEN [hit |-> TRUE, d |-> Decision(TRUE, "")]
    ELSE IF FirstAllow(agentPolicy, req) = 0
    THEN [hit |-> FALSE, d |-> DefaultDeny(req)]
    ELSE [hit |-> TRUE, d |-> Decide(agentPolicy.Allow[FirstAllow(agentPolicy, req)], req)]

\* the body of the loop over policy.Agents: hit = FALSE (go on to the next entry),
\* or the decision that Evaluate returns at once
ScanAgent(agentPolicy, req) ==
    IF FirstAllow(agentPolicy, req) = 0
    THEN [hit |-> FALSE, d |-> DefaultDeny(req)]
    ELSE [hit |-> TRUE, d |-> Decide(agentPolicy.Allow[FirstAllow(agentPolicy, req)], req)]

(***************************************************************************)
(* Policy documents: the bytes of a file either fail to parse as YAML or   *)
(* give a mapping, whose absent keys leave the struct's zero value.        *)
(***************************************************************************)
YamlError == [parses |-> FALSE, doc |-> <<>>]
Yaml(doc) == [parses |-> TRUE, doc |-> doc]

CappedAgents ==
    << AgentPolicy("fin",
          << ToolAllowance("payments", <<"create">>, Map([max_amount |-> Num(1)])),
             ToolAllowance("payments", <<"create", "refund">>, NilMap) >>),
       AgentPolicy("hr",
          << ToolAllowance("files", <<"read">>,
                           Map([folder_prefix |-> Str(HrDocs)])) >>) >>

OpenAgents ==
    << AgentPolicy("hr", << ToolAllowance("files", <<"read">>, NilMap) >>),
       AgentPolicy("fin", << ToolAllowance("payments", <<"create">>, NilMap) >>) >>

CappedDoc == Yaml([version |-> "1", agents |-> CappedAgents])
OpenDoc == Yaml([version |-> "2", agents |-> OpenAgents])
\* a document without a version key
NoVersionDoc == Yaml([agents |-> OpenAgents])
\* an allowance with an empty action list
NoActionsDoc ==
    Yaml([version |-> "3",
          agents |-> << AgentPolicy("fin", << ToolAllowance("payments", <<>>, NilMap) >>) >>])

\* an agent entry without an id key, an allowance without a tool key
NoIdDoc ==
    Yaml([version |-> "7",
          agents |-> << AgentPolicy("", << ToolAllowance("files", <<"read">>, NilMap) >>) >>])
NoToolDoc ==
    Yaml([version |-> "8",
          agents |-> << AgentPolicy("hr", << ToolAllowance("", <<"read">>, NilMap) >>) >>])

\* grants on a tool the gateway has no address for, and on an action whose URL
\* does not parse
MailDoc ==
    Yaml([version |-> "4",
          agents |-> << AgentPolicy("ops",
                          << ToolAllowance("mail", <<"send">>, NilMap),
                             ToolAllowance("files", <<"%zz">>, NilMap) >>) >>])

\* two entries for one agent ID: the first capped, the second without conditions
SplitDoc ==
    Yaml([version |-> "6",
          agents |-> << AgentPolicy("fin",
                          << ToolAllowance("payments", <<"create">>,
                                           Map([max_amount |-> Num(1)])) >>),
                        AgentPolicy("fin",
                          << ToolAllowance("payments", <<"create">>, NilMap) >>) >>])

\* yaml.Unmarshal(data, &policy): the error, or the struct the document fills
Unmarshal(data) ==
    IF ~data.parses
    THEN [err |-> TRUE, policy |-> Policy("", <<>>)]
    ELSE [err |-> FALSE,
          policy |-> Policy(IF Has(data.doc, "version") THEN data.doc["version"] ELSE "",
                            IF Has(data.doc, "agents") THEN data.doc["agents"] ELSE <<>>)]

\* a validation that returns nil for every policy
validatePolicyLax(p) == TRUE

\* a validation that tests the version only
validatePolicyVersionOnly(p) == p.Version # ""

\* validatePolicy: TRUE when it returns nil
validatePolicy(p) ==
    /\ p.Version # ""
    /\ \A i \in 1..Len(p.Agents) :
         /\ p.Agents[i].ID # ""
         /\ \A j \in 1..Len(p.Agents[i].Allow) :
              /\ p.Agents[i].Allow[j].Tool # ""
              /\ Len(p.Agents[i].Allow[j].Actions) # 0

(***************************************************************************)
(* File names are sequences of tokens; filepath.Ext is the suffix that     *)
(* begins at the last dot.                                                 *)
(***************************************************************************)
RECURSIVE LastDot(_)
LastDot(name) == IF name = <<>> THEN 0
                 ELSE IF name[Len(name)] = "." THEN Len(name)
                 ELSE LastDot(SubSeq(name, 1, Len(name) - 1))

Ext(name) == IF LastDot(name) = 0 THEN ""
             ELSE Text(SubSeq(name, LastDot(name), Len(name)))

FileA == <<"a", ".", "yaml">>
FileB == <<"b", ".", "yml">>
FileC == <<"c", ".", "txt">>
FileNames == {FileA, FileB, FileC}

\* the test of loadAllPolicies on a directory entry's name
Recognized(name) == ~(Ext(name) # ".yaml" /\ Ext(name) # ".yml")

(***************************************************************************)
(* The policy directory and the requests the model draws from.             *)
(***************************************************************************)
File(data) == [dir |-> FALSE, data |-> data]
\* a sub-directory of the policy directory
SubDir == [dir |-> TRUE, data |-> YamlError]

\* the directory as NewPolicyEngine finds it
InitDirs ==
    { <<>>,
      [n \in {FileA, FileB} |-> IF n = FileA THEN File(CappedDoc) ELSE File(MailDoc)],
      [n \in {FileA, FileB} |-> IF n = FileA THEN File(CappedDoc) ELSE File(OpenDoc)],
      [n \in {FileA, FileB} |-> IF n = FileA THEN File(NoVersionDoc) ELSE File(OpenDoc)],
      [n \in {FileA, FileB} |-> IF n = FileA THEN File(NoActionsDoc) ELSE SubDir],
      [n \in {FileA, FileB} |-> IF n = FileA THEN File(NoIdDoc) ELSE File(NoToolDoc)],
      [n \in FileNames |-> IF n = FileA THEN File(CappedDoc)
                           ELSE IF n = FileB THEN File(YamlError) ELSE File(OpenDoc)] }

\* what a later write may leave in a file
WriteContents == {CappedDoc, OpenDoc, NoVersionDoc, YamlError}

Request(agentID, tool, action, params) ==
    [agentID |-> agentID, tool |-> tool, action |-> action, params |-> params]

Requests ==
    { Request("fin", "payments", "create", [amount |-> Num(2)]),
      Request("fin", "payments", "create", [amount |-> Num(1)]),
      Request("fin", "payments", "refund", [amount |-> Num(2)]),
      Request("hr", "files", "read", [path |-> Str(LegalFile)]),
      Request("hr", "files", "read", [path |-> Str(HrFile)]),
      Request("ops", "mail", "send", <<>>),
      Request("ops", "files", "read", <<>>) }

(***************************************************************************)
(* State                                                                   *)
(***************************************************************************)
VARIABLES
    dirExists,  \* the policy directory exists
    files,      \* the policy directory: name -> entry
    fsOps,      \* changes made to the directory so far
    policies,   \* pe.policies: file path -> *Policy
    mu,         \* pe.mu: readers holding it, a writer holding it, a writer waiting
    engine,     \* NewPolicyEngine: "new", then "ok" (pe returned) or "failed"
    wpc,        \* position of the goroutine that loads: NewPolicyEngine, then the watcher
    entries,    \* loadAllPolicies: directory entries still to visit
    wev,        \* the file being loaded / the event being handled
    wpolicy,    \* loadPolicyFile: the parsed and validated policy
    wdata,      \* loadPolicyFile: the bytes os.ReadFile returned
    werr,       \* the last loadPolicyFile call returned an error
    before,     \* history: the store when the watcher received the event it handles
    loadedFrom, \* history: the bytes each store entry was parsed from
    watching,   \* watcher.Add has registered the directory
    closed,     \* watcher.Close has closed the channels
    events,     \* pe.watcher.Events, oldest first
    watchErrs,  \* errors waiting on pe.watcher.Errors
    errsSent,   \* errors delivered so far
    ev,         \* the Evaluate calls
    gw,         \* the HandleRequest call: its position, its locals, the response
    outbound,   \* outbound calls started by g.client.Do
    audit,      \* what the audit collaborator was handed, oldest first
    trace       \* the steps of the call that the outside can observe, in order

engineVars == <<dirExists, files, fsOps, policies, mu, engine, wpc, entries, wev,
                wpolicy, wdata, werr, before, loadedFrom, watching, closed, events,
                watchErrs, errsSent, ev>>

\* the locals of loadPolicyFile and the history kept for the handler
loadVars == <<wpolicy, wdata, werr, before, loadedFrom>>

gwVars == <<gw, outbound, audit, trace>>
fsVars == <<dirExists, files, fsOps>>
chanVars == <<watching, closed, events, watchErrs, errsSent>>

Evaluators == 1..NumEvaluators

NoEvent == [Name |-> <<>>, Op |-> {}]
NoPolicy == Policy("", <<>>)
IdleEval == [pc |-> "idle", req |-> Request("", "", "", <<>>), visited |-> {},
             order |-> <<>>, cur |-> <<>>, idx |-> 0, seen |-> <<>>, snap |-> <<>>,
             result |-> Decision(FALSE, "")]

\* before NewPolicyEngine: the directory is one of dirs, or does not exist
InitEngine(dirs) ==
    /\ dirExists \in BOOLEAN
    /\ files \in IF dirExists THEN dirs ELSE {<<>>}
    /\ fsOps = 0
    /\ policies = <<>>
    /\ mu = [readers |-> 0, writer |-> FALSE, waiting |-> FALSE]
    /\ engine = "new"
    /\ wpc = "readdir"
    /\ entries = {}
    /\ wev = NoEvent
    /\ wpolicy = NoPolicy
    /\ wdata = YamlError
    /\ werr = FALSE
    /\ before = <<>>
    /\ loadedFrom = <<>>
    /\ watching = FALSE
    /\ closed = FALSE
    /\ events = <<>>
    /\ watchErrs = 0
    /\ errsSent = 0
    /\ ev = [e \in Evaluators |-> IdleEval]

(***************************************************************************)
(* sync.RWMutex                                                            *)
(***************************************************************************)
\* RLock returns: no writer holds the lock and none is waiting for it
CanRLock == ~mu.writer /\ ~mu.waiting
\* Lock returns: the readers have left
CanLock == mu.readers = 0 /\ ~mu.writer

\* map assignment and delete
Put(m, k, v) == [x \in DOMAIN m \cup {k} |-> IF x = k THEN v ELSE m[x]]
Delete(m, k) == [x \in DOMAIN m \ {k} |-> m[x]]

(***************************************************************************)
(* NewPolicyEngine and loadAllPolicies                                     *)
(***************************************************************************)
\* os.ReadDir(pe.baseDir): the error return, or the entries to loop over
ReadDir ==
    /\ wpc = "readdir"
    /\ IF dirExists
       THEN /\ entries' = DOMAIN files
            /\ wpc' = "enumerate"
            /\ UNCHANGED engine
       ELSE /\ engine' = "failed"
            /\ wpc' = "exited"
            /\ UNCHANGED entries
    /\ UNCHANGED <<gwVars, fsVars, chanVars, policies, mu, wev, loadVars, ev>>

\* one turn of the loop: skip directories and other extensions, load the rest
EnumerateEntry(name) ==
    /\ wpc = "enumerate"
    /\ name \in entries
    /\ entries' = entries \ {name}
    /\ IF (name \in DOMAIN files /\ files[name].dir) \/ ~Recognized(name)
       THEN UNCHANGED <<wpc, wev>>
       ELSE /\ wev' = [Name |-> name, Op |-> {}]
            /\ wpc' = "read"
    /\ UNCHANGED <<gwVars, fsVars, chanVars, policies, mu, engine, loadVars, ev>>

\* after the loop: watcher.Add, go pe.watchForChanges(), return pe
StartWatching ==
    /\ wpc = "enumerate"
    /\ entries = {}
    /\ watching' = TRUE
    /\ engine' = "ok"
    /\ wpc' = "select"
    /\ UNCHANGED <<gwVars, fsVars, closed, events, watchErrs, errsSent, policies, mu, entries,
                   wev, loadVars, ev>>

(***************************************************************************)
(* loadPolicyFile                                                          *)
(***************************************************************************)
\* where the caller goes on when loadPolicyFile has returned
AfterLoad ==
    IF ~watching THEN "enumerate"
    ELSE IF "Remove" \in wev.Op THEN "rmlock"
    ELSE "select"

\* os.ReadFile, yaml.Unmarshal, validatePolicy: an error of any of them returns
Loadable(dir, name) ==
    /\ name \in DOMAIN dir
    /\ ~dir[name].dir
    /\ ~Unmarshal(dir[name].data).err
    /\ validatePolicy(Unmarshal(dir[name].data).policy)

LoadOk(name) == Loadable(files, name)

\* a failing load that makes the constructor return its error
LoadReadFatal ==
    /\ wpc = "read"
    /\ IF LoadOk(wev.Name)
       THEN /\ wdata' = files[wev.Name].data
            /\ wpolicy' = Unmarshal(files[wev.Name].data).policy
            /\ wpc' = "lock"
            /\ UNCHANGED <<werr, engine>>
       ELSE /\ wpc' = IF watching THEN AfterLoad ELSE "exited"
            /\ engine' = IF watching THEN engine ELSE "failed"
            /\ werr' = TRUE
            /\ UNCHANGED <<wpolicy, wdata>>
    /\ UNCHANGED <<gwVars, fsVars, chanVars, policies, mu, entries, wev, ev,
                   before, loadedFrom>>

LoadRead ==
    /\ wpc = "read"
    /\ IF LoadOk(wev.Name)
       THEN /\ wdata' = files[wev.Name].data
            /\ wpolicy' = Unmarshal(files[wev.Name].data).policy
            /\ wpc' = "lock"
            /\ UNCHANGED werr
       ELSE /\ wpc' = AfterLoad
            /\ werr' = TRUE
            /\ UNCHANGED <<wpolicy, wdata>>
    /\ UNCHANGED <<gwVars, fsVars, chanVars, policies, mu, engine, entries, wev, ev,
                   before, loadedFrom>>

\* pe.mu.Lock() is called: new readers wait from now on
LoadLock ==
    /\ wpc = "lock"
    /\ mu' = [mu EXCEPT !.waiting = TRUE]
    /\ wpc' = "lockwait"
    /\ UNCHANGED <<gwVars, fsVars, chanVars, policies, engine, entries, wev, loadVars, ev>>

\* loadPolicyFile writing the map without waiting for the readers to leave
LoadAcquireUnguarded ==
    /\ wpc = "lockwait"
    /\ mu' = [mu EXCEPT !.waiting = FALSE, !.writer = TRUE]
    /\ wpc' = "publish"
    /\ UNCHANGED <<gwVars, fsVars, chanVars, policies, engine, entries, wev, loadVars, ev>>

\* pe.mu.Lock() returns
LoadAcquire ==
    /\ wpc = "lockwait"
    /\ CanLock
    /\ mu' = [mu EXCEPT !.waiting = FALSE, !.writer = TRUE]
    /\ wpc' = "publish"
    /\ UNCHANGED <<gwVars, fsVars, chanVars, policies, engine, entries, wev, loadVars, ev>>

\* a reload by the watcher that clears the map before it publishes
LoadPublishCleared ==
    /\ wpc = "publish"
    /\ policies' = IF watching THEN [n \in {wev.Name} |-> wpolicy]
                   ELSE Put(policies, wev.Name, wpolicy)
    /\ loadedFrom' = IF watching THEN [n \in {wev.Name} |-> wdata]
                     ELSE Put(loadedFrom, wev.Name, wdata)
    /\ wpc' = "unlock"
    /\ UNCHANGED <<gwVars, fsVars, chanVars, mu, engine, entries, wev, wpolicy, wdata,
                   werr, before, ev>>

\* pe.policies[filePath] = &policy
LoadPublish ==
    /\ wpc = "publish"
    /\ policies' = Put(policies, wev.Name, wpolicy)
    /\ loadedFrom' = Put(loadedFrom, wev.Name, wdata)
    /\ wpc' = "unlock"
    /\ UNCHANGED <<gwVars, fsVars, chanVars, mu, engine, entries, wev, wpolicy, wdata,
                   werr, before, ev>>

\* pe.mu.Unlock(), return nil
LoadUnlock ==
    /\ wpc = "unlock"
    /\ mu' = [mu EXCEPT !.writer = FALSE]
    /\ wpc' = AfterLoad
    /\ wpolicy' = NoPolicy
    /\ wdata' = YamlError
    /\ werr' = FALSE
    /\ UNCHANGED <<gwVars, fsVars, chanVars, policies, engine, entries, wev, ev, before,
                   loadedFrom>>

(***************************************************************************)
(* watchForChanges                                                         *)
(***************************************************************************)
\* a handler started for every event as it arrives, the one before still running
WatchEventEager ==
    /\ ~closed
    /\ events # <<>>
    /\ wev' = Head(events)
    /\ events' = Tail(events)
    /\ wpc' = IF "Write" \in Head(events).Op \/ "Create" \in Head(events).Op
              THEN "sleep"
              ELSE IF "Remove" \in Head(events).Op THEN "rmlock" ELSE "select"
    /\ before' = policies
    /\ werr' = FALSE
    /\ UNCHANGED <<gwVars, fsVars, watching, closed, watchErrs, errsSent, policies, mu,
                   engine, entries, wpolicy, wdata, loadedFrom, ev>>

\* case event, ok := <-pe.watcher.Events
WatchEvent ==
    /\ wpc = "select"
    /\ ~closed
    /\ events # <<>>
    /\ wev' = Head(events)
    /\ events' = Tail(events)
    /\ wpc' = IF "Write" \in Head(events).Op \/ "Create" \in Head(events).Op
              THEN "sleep"
              ELSE IF "Remove" \in Head(events).Op THEN "rmlock" ELSE "select"
    /\ before' = policies
    /\ werr' = FALSE
    /\ UNCHANGED <<gwVars, fsVars, watching, closed, watchErrs, errsSent, policies, mu,
                   engine, entries, wpolicy, wdata, loadedFrom, ev>>

\* time.Sleep(100 * time.Millisecond), then loadPolicyFile(event.Name)
WatchSleep ==
    /\ wpc = "sleep"
    /\ wpc' = "read"
    /\ UNCHANGED <<gwVars, fsVars, chanVars, policies, mu, engine, entries, wev, loadVars, ev>>

\* the Remove branch: pe.mu.Lock()
RemoveLock ==
    /\ wpc = "rmlock"
    /\ mu' = [mu EXCEPT !.waiting = TRUE]
    /\ wpc' = "rmlockwait"
    /\ UNCHANGED <<gwVars, fsVars, chanVars, policies, engine, entries, wev, loadVars, ev>>

RemoveAcquire ==
    /\ wpc = "rmlockwait"
    /\ CanLock
    /\ mu' = [mu EXCEPT !.waiting = FALSE, !.writer = TRUE]
    /\ wpc' = "delete"
    /\ UNCHANGED <<gwVars, fsVars, chanVars, policies, engine, entries, wev, loadVars, ev>>

\* the Remove branch without its delete
RemoveDeleteKept ==
    /\ wpc = "delete"
    /\ wpc' = "rmunlock"
    /\ UNCHANGED <<gwVars, fsVars, chanVars, policies, mu, engine, entries, wev, wpolicy,
                   wdata, werr, before, loadedFrom, ev>>

\* delete(pe.policies, event.Name)
RemoveDelete ==
    /\ wpc = "delete"
    /\ policies' = Delete(policies, wev.Name)
    /\ loadedFrom' = Delete(loadedFrom, wev.Name)
    /\ wpc' = "rmunlock"
    /\ UNCHANGED <<gwVars, fsVars, chanVars, mu, engine, entries, wev, wpolicy, wdata,
                   werr, before, ev>>

RemoveUnlock ==
    /\ wpc = "rmunlock"
    /\ mu' = [mu EXCEPT !.writer = FALSE]
    /\ wpc' = "select"
    /\ UNCHANGED <<gwVars, fsVars, chanVars, policies, engine, entries, wev, loadVars, ev>>

\* a watcher that returns on the first error it receives
WatchErrorExits ==
    /\ wpc = "select"
    /\ ~closed
    /\ watchErrs > 0
    /\ watchErrs' = watchErrs - 1
    /\ wpc' = "exited"
    /\ UNCHANGED <<gwVars, fsVars, watching, closed, events, errsSent, policies, mu, engine,
                   entries, wev, loadVars, ev>>

\* case err, ok := <-pe.watcher.Errors: the error is printed
WatchError ==
    /\ wpc = "select"
    /\ ~closed
    /\ watchErrs > 0
    /\ watchErrs' = watchErrs - 1
    /\ UNCHANGED <<gwVars, fsVars, watching, closed, events, errsSent, policies, mu, engine,
                   wpc, entries, wev, loadVars, ev>>

\* a receive from a closed channel: !ok, return
WatchClosed ==
    /\ wpc = "select"
    /\ closed
    /\ wpc' = "exited"
    /\ UNCHANGED <<gwVars, fsVars, chanVars, policies, mu, engine, entries, wev, loadVars, ev>>

\* PolicyEngine.Close: the watcher closes its channels and delivers nothing more
Close ==
    /\ engine = "ok"
    /\ ~closed
    /\ closed' = TRUE
    /\ events' = <<>>
    /\ watchErrs' = 0
    /\ UNCHANGED <<gwVars, fsVars, watching, errsSent, policies, mu, engine, wpc, entries, wev,
                   loadVars, ev>>

(***************************************************************************)
(* The environment: the policy directory changes, the notification library *)
(* reports what it saw once the directory is watched.                      *)
(***************************************************************************)
Notify(name, op) ==
    IF watching /\ ~closed
    THEN events' = Append(events, [Name |-> name, Op |-> {op}])
    ELSE UNCHANGED events

FsWrite(name, data) ==
    /\ dirExists
    /\ fsOps < MaxFsOps
    /\ ~(name \in DOMAIN files /\ files[name].dir)
    /\ fsOps' = fsOps + 1
    /\ files' = Put(files, name, File(data))
    /\ Notify(name, IF name \in DOMAIN files THEN "Write" ELSE "Create")
    /\ UNCHANGED <<gwVars, dirExists, watching, closed, watchErrs, errsSent, policies, mu,
                   engine, wpc, entries, wev, loadVars, ev>>

FsRemove(name) ==
    /\ dirExists
    /\ fsOps < MaxFsOps
    /\ name \in DOMAIN files
    /\ fsOps' = fsOps + 1
    /\ files' = Delete(files, name)
    /\ Notify(name, "Remove")
    /\ UNCHANGED <<gwVars, dirExists, watching, closed, watchErrs, errsSent, policies, mu,
                   engine, wpc, entries, wev, loadVars, ev>>

\* the file is moved out of the directory: the library reports a Rename of its name
FsRename(name) ==
    /\ dirExists
    /\ fsOps < MaxFsOps
    /\ name \in DOMAIN files
    /\ fsOps' = fsOps + 1
    /\ files' = Delete(files, name)
    /\ Notify(name, "Rename")
    /\ UNCHANGED <<gwVars, dirExists, watching, closed, watchErrs, errsSent, policies, mu,
                   engine, wpc, entries, wev, loadVars, ev>>

\* the notification library reports an error of its own
FsError ==
    /\ watching
    /\ ~closed
    /\ errsSent < MaxWatchErrors
    /\ errsSent' = errsSent + 1
    /\ watchErrs' = watchErrs + 1
    /\ UNCHANGED <<gwVars, fsVars, watching, closed, events, policies, mu, engine, wpc, entries,
                   wev, loadVars, ev>>

(***************************************************************************)
(* Evaluate.  The range over pe.policies visits the keys in an order the   *)
(* language leaves open; policy.Agents and agentPolicy.Allow are slices,   *)
(* read in order through the pointer the store holds.                      *)
(***************************************************************************)
\* pe.mu.RLock()
EvalRLock(e, req) ==
    /\ engine = "ok"
    /\ ev[e].pc = "idle"
    /\ \A d \in Evaluators : d < e => ev[d].pc # "idle"
    /\ CanRLock
    /\ mu' = [mu EXCEPT !.readers = @ + 1]
    /\ ev' = [ev EXCEPT ![e] = [IdleEval EXCEPT !.pc = "range", !.req = req,
                                                !.snap = policies]]
    /\ UNCHANGED <<gwVars, fsVars, chanVars, policies, engine, wpc, entries, wev, loadVars>>

\* for _, policy := range pe.policies: the next key
EvalRange(e, name) ==
    /\ ev[e].pc = "range"
    /\ name \in DOMAIN policies \ ev[e].visited
    /\ ev' = [ev EXCEPT ![e].pc = "agents", ![e].cur = name, ![e].idx = 1,
                        ![e].order = Append(@, name)]
    /\ UNCHANGED <<gwVars, fsVars, chanVars, policies, mu, engine, wpc, entries, wev, loadVars>>

\* for _, agentPolicy := range policy.Agents: one entry, with its loop over Allow;
\* a return runs the deferred RUnlock
EvalAgent(e) ==
    /\ ev[e].pc = "agents"
    /\ LET agents == policies[ev[e].cur].Agents
           i == ev[e].idx
       IN IF i > Len(agents)
          THEN /\ ev' = [ev EXCEPT ![e].pc = "range", ![e].visited = @ \cup {ev[e].cur},
                                   ![e].cur = <<>>, ![e].idx = 0]
               /\ UNCHANGED mu
          ELSE LET saw == Append(ev[e].seen,
                                 [src |-> ev[e].cur, idx |-> i, entry |-> agents[i]])
               IN IF ScanAgent(agents[i], ev[e].req).hit
                  THEN /\ ev' = [ev EXCEPT ![e].pc = "done", ![e].seen = saw,
                                           ![e].result = ScanAgent(agents[i], ev[e].req).d]
                       /\ mu' = [mu EXCEPT !.readers = @ - 1]
                  ELSE /\ ev' = [ev EXCEPT ![e].idx = i + 1, ![e].seen = saw]
                       /\ UNCHANGED mu
    /\ UNCHANGED <<gwVars, fsVars, chanVars, policies, engine, wpc, entries, wev, loadVars>>

\* the range is over: the final return, and the deferred RUnlock
EvalDefault(e) ==
    /\ ev[e].pc = "range"
    /\ DOMAIN policies \ ev[e].visited = {}
    /\ ev' = [ev EXCEPT ![e].pc = "done", ![e].result = DefaultDeny(ev[e].req)]
    /\ mu' = [mu EXCEPT !.readers = @ - 1]
    /\ UNCHANGED <<gwVars, fsVars, chanVars, policies, engine, wpc, entries, wev, loadVars>>

\* the caller has taken the result
EvalFinish(e) ==
    /\ ev[e].pc = "done"
    /\ ev' = [ev EXCEPT ![e] = [IdleEval EXCEPT !.pc = "finished"]]
    /\ UNCHANGED <<gwVars, fsVars, chanVars, policies, mu, engine, wpc, entries, wev, loadVars>>

(***************************************************************************)
(* Evaluate as one call: the decisions it can return for a store, one for  *)
(* each order in which the range may visit the keys.                       *)
(***************************************************************************)
RECURSIVE ScanAgents(_, _, _)
\* the loop over policy.Agents from entry i on
ScanAgents(agents, i, req) ==
    IF i > Len(agents) THEN [hit |-> FALSE, d |-> DefaultDeny(req)]
    ELSE IF ScanAgent(agents[i], req).hit THEN ScanAgent(agents[i], req)
    ELSE ScanAgents(agents, i + 1, req)

RECURSIVE EvaluateAnyPolicy(_, _, _)
\* a scan that goes on to the next policy when a condition fails
EvaluateAnyPolicy(store, order, req) ==
    IF order = <<>> THEN DefaultDeny(req)
    ELSE IF /\ ScanAgents(store[Head(order)].Agents, 1, req).hit
            /\ \/ ScanAgents(store[Head(order)].Agents, 1, req).d.allowed
               \/ ~EvaluateAnyPolicy(store, Tail(order), req).allowed
         THEN ScanAgents(store[Head(order)].Agents, 1, req).d
    ELSE EvaluateAnyPolicy(store, Tail(order), req)

RECURSIVE EvaluateInOrder(_, _, _)
EvaluateInOrder(store, order, req) ==
    IF order = <<>> THEN DefaultDeny(req)
    ELSE IF ScanAgents(store[Head(order)].Agents, 1, req).hit
         THEN ScanAgents(store[Head(order)].Agents, 1, req).d
    ELSE EvaluateInOrder(store, Tail(order), req)

\* the orders in which a range can visit a set of keys
Orders(keys) ==
    { o \in [1..Cardinality(keys) -> keys] : \A i, j \in DOMAIN o : i # j => o[i] # o[j] }

EvalOutcomes(store, req) ==
    { EvaluateInOrder(store, o, req) : o \in Orders(DOMAIN store) }

(***************************************************************************)
(* Gateway.HandleRequest                                                   *)
(***************************************************************************)
\* g.toolURLs
ToolRegistry == {"payments", "files"}

\* a URL path is a sequence of tokens, "/" being one of them
TrimSlash(path) == IF path # <<>> /\ Head(path) = "/" THEN Tail(path) ELSE path

RECURSIVE Split(_)
\* strings.Split(s, "/")
Split(ts) ==
    IF ts = <<>> THEN <<"">>
    ELSE IF Head(ts) = "/" THEN <<"">> \o Split(Tail(ts))
    ELSE << Head(ts) \o Head(Split(Tail(ts))) >> \o Tail(Split(Tail(ts)))

PathParts(path) == Split(TrimSlash(path))

\* the first test of HandleRequest
BadPath(path) == Len(PathParts(path)) < 3 \/ PathParts(path)[1] # "tools"

\* the request body: nothing, a JSON object, bytes that are no JSON object, or a
\* body whose read fails
EmptyBody == [kind |-> "empty", params |-> <<>>]
JsonBody(params) == [kind |-> "object", params |-> params]
InvalidBody == [kind |-> "invalid", params |-> <<>>]
BrokenBody == [kind |-> "readerror", params |-> <<>>]

BadBody(body) == body.kind = "readerror" \/ body.kind = "invalid"

\* telemetry.HashParams: the digest of the canonical JSON of the parameters
HashParams(params) == [sha256 |-> params]

\* http.NewRequestWithContext fails on a URL that does not parse
InvalidURL(action) == action = "%zz"

\* ResponseWriter.WriteHeader: the first status written is the one sent
WriteHeader(status, code) == IF status = 0 THEN code ELSE status

IdleGateway ==
    [pc |-> "idle", path |-> <<>>, agentID |-> "", body |-> EmptyBody,
     tool |-> "", action |-> "", params |-> <<>>, hash |-> HashParams(<<>>),
     allowed |-> FALSE, reason |-> "", status |-> 0, err |-> FALSE,
     cancelled |-> FALSE, cancelledAt |-> "", cause |-> "", downstream |-> 0]

InitGateway ==
    /\ gw = IdleGateway
    /\ outbound = 0
    /\ audit = <<>>
    /\ trace = <<>>

GwRequest(g) == Request(g.agentID, g.tool, g.action, g.params)

\* from the entry to the call of Evaluate: the path, the header, the body
HandleRequest(path, agentID, body) ==
    /\ gw.pc = "idle"
    /\ IF BadPath(path) \/ agentID = "" \/ BadBody(body)
       THEN /\ gw' = [gw EXCEPT !.pc = "returned", !.path = path, !.agentID = agentID,
                                !.body = body, !.status = WriteHeader(gw.status, 400)]
            /\ trace' = Append(trace, "status")
       ELSE /\ gw' = [gw EXCEPT !.pc = "evaluate", !.path = path, !.agentID = agentID,
                                !.body = body,
                                !.tool = PathParts(path)[2],
                                !.action = PathParts(path)[3],
                                !.params = body.params,
                                !.hash = HashParams(body.params)]
            /\ UNCHANGED trace
    /\ UNCHANGED <<engineVars, outbound, audit>>

\* Evaluate followed by LogDecision only for a call that is allowed
GwEvaluateSilentDeny(d) ==
    /\ gw.pc = "evaluate"
    /\ d \in EvalOutcomes(policies, GwRequest(gw))
    /\ gw' = [gw EXCEPT !.pc = IF d.allowed THEN "logdecision" ELSE "deny",
                        !.allowed = d.allowed, !.reason = d.reason]
    /\ trace' = Append(trace, "evaluate")
    /\ UNCHANGED <<engineVars, outbound, audit>>

\* allowed, reason := g.policyEngine.Evaluate(agentID, tool, action, params)
GwEvaluate(d) ==
    /\ gw.pc = "evaluate"
    /\ d \in EvalOutcomes(policies, GwRequest(gw))
    /\ gw' = [gw EXCEPT !.pc = "logdecision", !.allowed = d.allowed, !.reason = d.reason]
    /\ trace' = Append(trace, "evaluate")
    /\ UNCHANGED <<engineVars, outbound, audit>>

\* LogDecision without the test of allowed after it
GwLogDecisionForwardAll ==
    /\ gw.pc = "logdecision"
    /\ audit' = Append(audit, [kind |-> "decision", agentID |-> gw.agentID,
                               tool |-> gw.tool, action |-> gw.action,
                               allowed |-> gw.allowed, reason |-> gw.reason,
                               hash |-> gw.hash])
    /\ trace' = Append(trace, "decision")
    /\ gw' = [gw EXCEPT !.pc = "lookup"]
    /\ UNCHANGED <<engineVars, outbound>>

\* g.telemetry.LogDecision(...)
GwLogDecision ==
    /\ gw.pc = "logdecision"
    /\ audit' = Append(audit, [kind |-> "decision", agentID |-> gw.agentID,
                               tool |-> gw.tool, action |-> gw.action,
                               allowed |-> gw.allowed, reason |-> gw.reason,
                               hash |-> gw.hash])
    /\ trace' = Append(trace, "decision")
    /\ gw' = [gw EXCEPT !.pc = IF gw.allowed THEN "lookup" ELSE "deny"]
    /\ UNCHANGED <<engineVars, outbound>>

\* if !allowed: 403 and the PolicyViolation body
GwDeny ==
    /\ gw.pc = "deny"
    /\ gw' = [gw EXCEPT !.pc = "returned", !.status = WriteHeader(gw.status, 403)]
    /\ trace' = Append(trace, "status")
    /\ UNCHANGED <<engineVars, outbound, audit>>

\* a lookup that answers 404 for a tool without an address
GwLookupNotFound ==
    /\ gw.pc = "lookup"
    /\ IF gw.tool \in ToolRegistry
       THEN /\ gw' = [gw EXCEPT !.pc = "forward"]
            /\ UNCHANGED trace
       ELSE /\ gw' = [gw EXCEPT !.pc = "returned", !.status = WriteHeader(gw.status, 404)]
            /\ trace' = Append(trace, "status")
    /\ UNCHANGED <<engineVars, outbound, audit>>

\* toolURL, exists := g.toolURLs[tool]
GwLookup ==
    /\ gw.pc = "lookup"
    /\ IF gw.tool \in ToolRegistry
       THEN /\ gw' = [gw EXCEPT !.pc = "forward"]
            /\ UNCHANGED trace
       ELSE /\ gw' = [gw EXCEPT !.pc = "returned", !.status = WriteHeader(gw.status, 400)]
            /\ trace' = Append(trace, "status")
    /\ UNCHANGED <<engineVars, outbound, audit>>

\* LogForwardedCall moved before forwardRequest: the record is made as the outbound
\* call starts
GwForwardRecordedFirst ==
    /\ gw.pc = "forward"
    /\ IF InvalidURL(gw.action)
       THEN /\ gw' = [gw EXCEPT !.pc = "finish", !.err = TRUE]
            /\ outbound' = outbound
            /\ trace' = Append(trace, "forward")
       ELSE /\ gw' = [gw EXCEPT !.pc = "inflight"]
            /\ outbound' = outbound + 1
            /\ trace' = trace \o <<"forward", "outbound">>
    /\ audit' = Append(audit, [kind |-> "forward", tool |-> gw.tool,
                               action |-> gw.action])
    /\ UNCHANGED engineVars

\* forwardRequest up to g.client.Do(req): the outbound call starts, unless the
\* request cannot be built
GwForward ==
    /\ gw.pc = "forward"
    /\ IF InvalidURL(gw.action)
       THEN /\ gw' = [gw EXCEPT !.pc = "logforward", !.err = TRUE]
            /\ UNCHANGED <<outbound, trace>>
       ELSE /\ gw' = [gw EXCEPT !.pc = "inflight"]
            /\ outbound' = outbound + 1
            /\ trace' = Append(trace, "outbound")
    /\ UNCHANGED <<engineVars, audit>>

\* the context forwardRequest is called with: the one LogDecision returns, which it
\* derives from the context.Background() it is given
ForwardContext == "background"

\* ctx.Done() is closed: for a context derived from the request's, when the caller
\* has gone; never for one derived from context.Background()
ContextDone(ctx) == ctx = "request" /\ gw.cancelled

\* the errors g.client.Do can return
DoErrors ==
    {"unreachable", "timeout"}
        \cup (IF ContextDone(ForwardContext) THEN {"canceled"} ELSE {})

\* the caller disconnects: the context of the inbound request is cancelled
GwCancel ==
    /\ gw.pc \notin {"idle", "returned"}
    /\ ~gw.cancelled
    /\ gw' = [gw EXCEPT !.cancelled = TRUE, !.cancelledAt = gw.pc]
    /\ UNCHANGED <<engineVars, outbound, audit, trace>>

\* a failed g.client.Do returning past LogForwardedCall
GwDoErrorUnlogged(cause) ==
    /\ gw.pc = "inflight"
    /\ cause \in DoErrors
    /\ gw' = [gw EXCEPT !.pc = "finish", !.err = TRUE, !.cause = cause]
    /\ trace' = Append(trace, "outbound-done")
    /\ UNCHANGED <<engineVars, outbound, audit>>

\* g.client.Do fails (unreachable, timeout, context done)
GwDoError(cause) ==
    /\ gw.pc = "inflight"
    /\ cause \in DoErrors
    /\ gw' = [gw EXCEPT !.pc = "logforward", !.err = TRUE, !.cause = cause]
    /\ trace' = Append(trace, "outbound-done")
    /\ UNCHANGED <<engineVars, outbound, audit>>

\* the downstream tool answers: its status is written, its body copied
GwResponse(code, copied) ==
    /\ gw.pc = "inflight"
    /\ gw' = [gw EXCEPT !.pc = "logforward", !.status = WriteHeader(gw.status, code),
                        !.err = ~copied, !.downstream = code]
    /\ trace' = trace \o <<"outbound-done", "status">>
    /\ UNCHANGED <<engineVars, outbound, audit>>

\* g.telemetry.LogForwardedCall(ctx, tool, action, forwardLatency)
GwLogForward ==
    /\ gw.pc = "logforward"
    /\ audit' = Append(audit, [kind |-> "forward", tool |-> gw.tool,
                               action |-> gw.action])
    /\ trace' = Append(trace, "forward")
    /\ gw' = [gw EXCEPT !.pc = "finish"]
    /\ UNCHANGED <<engineVars, outbound>>

\* if err != nil: http.Error(w, ..., 500); the deferred span ends
GwFinish ==
    /\ gw.pc = "finish"
    /\ IF gw.err
       THEN /\ gw' = [gw EXCEPT !.pc = "returned", !.status = WriteHeader(gw.status, 500)]
            /\ trace' = Append(trace, "status")
       ELSE /\ gw' = [gw EXCEPT !.pc = "returned"]
            /\ UNCHANGED trace
    /\ UNCHANGED <<engineVars, outbound, audit>>

(***************************************************************************)
(* The policy engine with its watcher and concurrent Evaluate calls: one   *)
(* or two policy files are rewritten or removed while calls are evaluated. *)
(***************************************************************************)
vars == <<engineVars, gwVars>>

HotDirs ==
    { [n \in {FileA} |-> File(CappedDoc)],
      [n \in {FileA, FileB} |-> IF n = FileA THEN File(CappedDoc) ELSE File(OpenDoc)] }
HotFiles == {FileA, FileB}
HotContents == {OpenDoc, YamlError}
HotRequests ==
    { Request("fin", "payments", "create", [amount |-> Num(2)]),
      Request("ops", "files", "read", <<>>) }

Init ==
    /\ InitEngine(HotDirs)
    /\ InitGateway

Loader ==
    \/ ReadDir
    \/ \E name \in FileNames : EnumerateEntry(name)
    \/ StartWatching
    \/ LoadRead
    \/ LoadLock
    \/ LoadAcquire
    \/ LoadPublish
    \/ LoadUnlock

Watcher ==
    \/ WatchEvent
    \/ WatchSleep
    \/ RemoveLock
    \/ RemoveAcquire
    \/ RemoveDelete
    \/ RemoveUnlock

Evaluate ==
    \/ \E e \in Evaluators, req \in HotRequests : EvalRLock(e, req)
    \/ \E e \in Evaluators, name \in FileNames : EvalRange(e, name)
    \/ \E e \in Evaluators : EvalAgent(e)
    \/ \E e \in Evaluators : EvalDefault(e)
    \/ \E e \in Evaluators : EvalFinish(e)

Next ==
    \/ Loader
    \/ Watcher
    \/ Evaluate
    \/ \E name \in HotFiles, data \in HotContents : FsWrite(name, data)
    \/ \E name \in HotFiles : FsRemove(name)

Spec == Init /\ [][Next]_vars

(***************************************************************************)
(* The loader and the watcher alone, over every directory and every change *)
(* of the model, with the watcher's errors and its shutdown.               *)
(***************************************************************************)
LoadInit == InitEngine(InitDirs) /\ InitGateway

LoadNext ==
    \/ Loader
    \/ Watcher
    \/ WatchError
    \/ WatchClosed
    \/ Close
    \/ \E name \in FileNames, data \in WriteContents : FsWrite(name, data)
    \/ \E name \in FileNames : FsRemove(name)
    \/ FsError

LoadSpec == LoadInit /\ [][LoadNext]_vars

(***************************************************************************)
(* The loader and the watcher over a directory whose files are written,    *)
(* removed and moved away.                                                 *)
(***************************************************************************)
MoveInit == InitEngine(HotDirs) /\ InitGateway

MoveNext ==
    \/ Loader
    \/ Watcher
    \/ \E name \in HotFiles, data \in HotContents : FsWrite(name, data)
    \/ \E name \in HotFiles : FsRemove(name)
    \/ \E name \in HotFiles : FsRename(name)

MoveSpec == MoveInit /\ [][MoveNext]_vars

\* the constructor and the watcher's goroutine keep running while they can take a
\* step: neither is starved by the changes of the directory
FairLoadSpec == LoadSpec /\ WF_vars(Loader) /\ WF_vars(Watcher)

(***************************************************************************)
(* The engine in service: one policy file that is rewritten or removed,    *)
(* the watcher with its errors and its shutdown, and Evaluate calls.  The  *)
(* goroutines run whenever they can take a step.                           *)
(***************************************************************************)
ServeCaller == CHOOSE e \in Evaluators : \A d \in Evaluators : e <= d

ServeInit ==
    /\ InitEngine({ [n \in {FileA} |-> File(CappedDoc)] })
    /\ InitGateway

\* the calls of one caller, one after the other
ServeEvaluate ==
    \/ \E req \in HotRequests : EvalRLock(ServeCaller, req)
    \/ \E name \in FileNames : EvalRange(ServeCaller, name)
    \/ EvalAgent(ServeCaller)
    \/ EvalDefault(ServeCaller)
    \/ EvalFinish(ServeCaller)

ServeNext ==
    \/ Loader
    \/ Watcher
    \/ WatchError
    \/ WatchClosed
    \/ Close
    \/ ServeEvaluate
    \/ \E data \in HotContents : FsWrite(FileA, data)
    \/ FsRemove(FileA)
    \/ FsError

ServeSpec ==
    /\ ServeInit
    /\ [][ServeNext]_vars
    /\ WF_vars(Loader)
    /\ WF_vars(Watcher)
    /\ WF_vars(WatchError \/ WatchClosed)
    /\ WF_vars(ServeEvaluate)

(***************************************************************************)
(* A constructed engine: the state NewPolicyEngine leaves for a directory  *)
(* of valid documents, the watcher waiting in its select.                  *)
(***************************************************************************)
\* every directory that holds valid documents under some of the two names
ValidDirs ==
    UNION { [names -> {File(CappedDoc), File(OpenDoc), File(MailDoc)}] :
            names \in SUBSET {FileA, FileB} }

\* the store loadAllPolicies builds from a directory
Loaded(dir) ==
    [n \in {m \in DOMAIN dir : Recognized(m) /\ Loadable(dir, m)} |->
        Unmarshal(dir[n].data).policy]

Constructed(dir) ==
    /\ dirExists = TRUE
    /\ files = dir
    /\ fsOps = 0
    /\ policies = Loaded(dir)
    /\ mu = [readers |-> 0, writer |-> FALSE, waiting |-> FALSE]
    /\ engine = "ok"
    /\ wpc = "select"
    /\ entries = {}
    /\ wev = NoEvent
    /\ wpolicy = NoPolicy
    /\ wdata = YamlError
    /\ werr = FALSE
    /\ before = <<>>
    /\ loadedFrom = [n \in DOMAIN Loaded(dir) |-> dir[n].data]
    /\ watching = TRUE
    /\ closed = FALSE
    /\ events = <<>>
    /\ watchErrs = 0
    /\ errsSent = 0
    /\ ev = [e \in Evaluators |-> IdleEval]

(***************************************************************************)
(* Evaluate alone, over every store of valid documents and every request.  *)
(***************************************************************************)
EvalInit ==
    /\ \E dir \in ValidDirs : Constructed(dir)
    /\ InitGateway

EvalNext ==
    \/ \E e \in Evaluators, req \in Requests : EvalRLock(e, req)
    \/ \E e \in Evaluators, name \in FileNames : EvalRange(e, name)
    \/ \E e \in Evaluators : EvalAgent(e)
    \/ \E e \in Evaluators : EvalDefault(e)
    \/ \E e \in Evaluators : EvalFinish(e)

EvalSpec == EvalInit /\ [][EvalNext]_vars

(***************************************************************************)
(* Evaluate over stores whose allowances for one agent, tool and action    *)
(* disagree: in two files, in two agent entries of a file, in one list.    *)
(***************************************************************************)
OrderDirs ==
    UNION { [names -> {File(CappedDoc), File(OpenDoc), File(SplitDoc)}] :
            names \in SUBSET {FileA, FileB} }

OrderInit ==
    /\ \E dir \in OrderDirs : Constructed(dir)
    /\ InitGateway

OrderSpec == OrderInit /\ [][EvalNext]_vars

(***************************************************************************)
(* One inbound call through the gateway, over a constructed engine.        *)
(***************************************************************************)
Slash == "/"
Paths ==
    { <<Slash, "tools", Slash, "payments", Slash, "create">>,
      <<Slash, "tools", Slash, "files", Slash, "read">>,
      <<Slash, "tools", Slash, "mail", Slash, "send">>,
      <<Slash, "tools", Slash, "files", Slash, "%zz">>,
      <<Slash, "tools", Slash, "payments">>,
      <<Slash, "tools", Slash>>,
      <<Slash, "api", Slash, "payments", Slash, "create">>,
      <<Slash, "tools", Slash, "payments", Slash, "create", Slash, "x">>,
      <<Slash, "tools", Slash, Slash, "create">>,
      <<Slash, "tools", Slash, "payments", Slash>> }

AgentHeaders == {"", "fin", "hr", "ops"}

Bodies ==
    { EmptyBody, InvalidBody, BrokenBody,
      JsonBody([amount |-> Num(1)]), JsonBody([amount |-> Num(2)]),
      JsonBody([path |-> Str(LegalFile)]) }

\* what the downstream tool may answer
DownstreamStatus == {200, 404, 503}

GatewayInit ==
    /\ \E dir \in ValidDirs : Constructed(dir)
    /\ InitGateway

GatewayNext ==
    \/ \E path \in Paths, agentID \in AgentHeaders, body \in Bodies :
          HandleRequest(path, agentID, body)
    \/ \E d \in EvalOutcomes(policies, GwRequest(gw)) : GwEvaluate(d)
    \/ GwLogDecision
    \/ GwDeny
    \/ GwLookup
    \/ GwForward
    \/ \E cause \in DoErrors : GwDoError(cause)
    \/ GwCancel
    \/ \E code \in DownstreamStatus, copied \in BOOLEAN : GwResponse(code, copied)
    \/ GwLogForward
    \/ GwFinish

GatewaySpec == GatewayInit /\ [][GatewayNext]_vars

(***************************************************************************)
(* Evaluate over one allowance, for every conditions map and every         *)
(* parameter set of the model.                                             *)
(***************************************************************************)
USD == <<"U", "S", "D">>
EUR == <<"E", "U", "R">>
GBP == <<"G", "B", "P">>
JPY == <<"J", "P", "Y">>

\* a key the map does not hold
Absent == [t |-> "absent", v |-> 0]
Pick(f) == [k \in {x \in DOMAIN f : f[x].t # "absent"} |-> f[k]]

\* conditions as a policy document gives them: a number (an integer, a fraction),
\* a quoted number, a list, a scalar where a list is expected
MaxAmounts == {Absent, Num(1), Num(5000), Half(5), Half(1), Str(<<"1">>)}
CurrencyLists == {Absent, List(<<Str(USD), Str(EUR)>>), Str(USD)}
FolderPrefixes == {Absent, Str(HrDocs), Num(1)}
ConditionSets ==
    { Pick([max_amount |-> a, currencies |-> c, folder_prefix |-> f]) :
        a \in MaxAmounts, c \in CurrencyLists, f \in FolderPrefixes }

\* parameters as the JSON body gives them
Amounts == {Absent, Num(1), Num(3), Num(5000), Num(5001), Half(5), Str(<<"9">>)}
Currencies == {Absent, Str(USD), Str(GBP), Str(JPY), Num(1)}
PathParams == {Absent, Str(HrFile), Str(LegalFile), Num(1)}
ParamSets ==
    { Pick([amount |-> a, currency |-> c, path |-> f]) :
        a \in Amounts, c \in Currencies, f \in PathParams }

\* a document with one allowance, under the conditions c
CondDoc(c) ==
    Yaml([version |-> "5",
          agents |-> << AgentPolicy("fin",
                          << ToolAllowance("payments", <<"create">>, Map(c)) >>) >>])

CondRequests ==
    { Request("fin", "payments", "create", p) : p \in ParamSets }
        \cup { Request("fin", "payments", "refund", Pick([amount |-> Num(1)])) }

CondInit ==
    /\ \E c \in ConditionSets : Constructed([n \in {FileA} |-> File(CondDoc(c))])
    /\ InitGateway

\* checkConditions works on the arguments of its own call: one call at a time
CondCaller == CHOOSE e \in Evaluators : \A d \in Evaluators : e <= d

CondNext ==
    \/ \E req \in CondRequests : EvalRLock(CondCaller, req)
    \/ \E name \in FileNames : EvalRange(CondCaller, name)
    \/ EvalAgent(CondCaller)
    \/ EvalDefault(CondCaller)
    \/ EvalFinish(CondCaller)

CondSpec == CondInit /\ [][CondNext]_vars

(***************************************************************************)
(* Properties                                                              *)
(***************************************************************************)
\* the Evaluate calls that hold the read lock
Reading(e) == ev[e].pc \in {"range", "agents"}

\* the agent entries call e has examined all come from the store as it was at one
\* instant, the one when e took the read lock
SeenFromSnapshot(e) ==
    \A k \in DOMAIN ev[e].seen :
        /\ ev[e].seen[k].src \in DOMAIN ev[e].snap
        /\ ev[e].seen[k].idx <= Len(ev[e].snap[ev[e].seen[k].src].Agents)
        /\ ev[e].seen[k].entry = ev[e].snap[ev[e].seen[k].src].Agents[ev[e].seen[k].idx]

\* C1: atomic visibility of a reload.  While an Evaluate call reads, no reload of
\* any source is published: every agent entry the call examines, and the decision
\* it returns, come from the store of one instant, which holds for each source
\* either the complete Policy from before a reload or the complete one after it,
\* never entries of both.
AtomicReload ==
    \A e \in Evaluators :
        /\ Reading(e) => policies = ev[e].snap
        /\ ev[e].pc \in {"range", "agents", "done"} => SeenFromSnapshot(e)
        /\ ev[e].pc = "done" => ev[e].result \in EvalOutcomes(ev[e].snap, ev[e].req)

\* an Evaluate call has examined an entry of a source while the watcher waits for
\* the lock to publish another Policy for that very source
ReloadMeetsReader ==
    \E e \in Evaluators :
        /\ ev[e].pc = "agents"
        /\ ev[e].seen # <<>>
        /\ watching
        /\ wpc = "lockwait"
        /\ wev.Name = ev[e].cur
        /\ wpolicy # policies[wev.Name]

\* the allowances of an agent entry, of a Policy, of the store, in the order of a scan
FlatAllow(src, i, entry) ==
    [j \in 1..Len(entry.Allow) |->
        [src |-> src, idx |-> i, agent |-> entry, allow |-> entry.Allow[j]]]

RECURSIVE FlatAgents(_, _, _)
FlatAgents(src, agents, i) ==
    IF i > Len(agents) THEN <<>>
    ELSE FlatAllow(src, i, agents[i]) \o FlatAgents(src, agents, i + 1)

RECURSIVE Flatten(_, _)
Flatten(store, order) ==
    IF order = <<>> THEN <<>>
    ELSE FlatAgents(Head(order), store[Head(order)].Agents, 1) \o Flatten(store, Tail(order))

\* the allowance grants the request's agent, tool and action
Grants(agent, allow, req) ==
    /\ agent.ID = req.agentID
    /\ allow.Tool = req.tool
    /\ \E a \in 1..Len(allow.Actions) : allow.Actions[a] = req.action

MatchesIn(fl, req) == { k \in DOMAIN fl : Grants(fl[k].agent, fl[k].allow, req) }
FirstOf(set) == CHOOSE k \in set : \A l \in set : k <= l

\* what the conditions of one allowance give for the request
ByConditions(allow, req) ==
    IF allow.Conditions.isNil \/ ~checkConditions(allow.Conditions.m, req.params).err
    THEN [allowed |-> TRUE, reason |-> ""]
    ELSE [allowed |-> FALSE, reason |-> checkConditions(allow.Conditions.m, req.params).msg]

SeqRange(q) == { q[i] : i \in DOMAIN q }

\* C3: first match wins.  The decision of a finished Evaluate call is the one of the
\* first allowance, in the order of its scan, whose agent ID, tool and action match:
\* (true, "") when that allowance has no conditions or they all pass, (false, the
\* failure reason) when one fails, whatever the later allowances would grant; the
\* scan stops at the entry of that allowance and visits no later policy.
FirstMatchWins ==
    \A e \in Evaluators :
        ev[e].pc = "done" =>
            LET fl == Flatten(ev[e].snap, ev[e].order)
                ms == MatchesIn(fl, ev[e].req)
            IN IF ms = {}
               THEN /\ ~ev[e].result.allowed
                    /\ SeqRange(ev[e].order) = DOMAIN ev[e].snap
               ELSE /\ ev[e].result = ByConditions(fl[FirstOf(ms)].allow, ev[e].req)
                    /\ ev[e].seen[Len(ev[e].seen)].src = fl[FirstOf(ms)].src
                    /\ ev[e].seen[Len(ev[e].seen)].idx = fl[FirstOf(ms)].idx
                    /\ ev[e].order[Len(ev[e].order)] = fl[FirstOf(ms)].src

\* a call was denied by a failing condition of its first match although the store
\* holds an allowance without conditions for the same agent, tool and action
FirstMatchBlocks ==
    \E e \in Evaluators :
        /\ ev[e].pc = "done"
        /\ ~ev[e].result.allowed
        /\ MatchesIn(Flatten(ev[e].snap, ev[e].order), ev[e].req) # {}
        /\ \E src \in DOMAIN ev[e].snap :
             \E i \in 1..Len(ev[e].snap[src].Agents) :
               \E j \in 1..Len(ev[e].snap[src].Agents[i].Allow) :
                 /\ Grants(ev[e].snap[src].Agents[i], ev[e].snap[src].Agents[i].Allow[j],
                           ev[e].req)
                 /\ ev[e].snap[src].Agents[i].Allow[j].Conditions.isNil

\* no allowance of the store grants the request's agent, tool and action
NoGrant(store, req) ==
    \A src \in DOMAIN store :
      \A i \in 1..Len(store[src].Agents) :
        \A j \in 1..Len(store[src].Agents[i].Allow) :
          ~Grants(store[src].Agents[i], store[src].Agents[i].Allow[j], req)

GenericDenial(req) ==
    [allowed |-> FALSE,
     reason |-> "Agent " \o req.agentID \o " is not allowed to perform action "
                \o req.action \o " on tool " \o req.tool]

\* C4: default deny.  When no stored allowance matches the agent, the tool and the
\* action, Evaluate returns false with the non-empty reason "Agent <agentID> is not
\* allowed to perform action <action> on tool <tool>", in every order of the scan;
\* with an empty store that is every request.
DefaultDenyHolds ==
    /\ \A e \in Evaluators :
         (ev[e].pc = "done" /\ NoGrant(ev[e].snap, ev[e].req)) =>
             /\ ev[e].result = GenericDenial(ev[e].req)
             /\ ev[e].result.reason # ""
    /\ \A req \in Requests :
         NoGrant(policies, req) => EvalOutcomes(policies, req) = {GenericDenial(req)}

\* a call against a store that holds policies, none of which grants it, has returned
DeniedByDefault ==
    \E e \in Evaluators :
        /\ ev[e].pc = "done"
        /\ ev[e].snap # <<>>
        /\ NoGrant(ev[e].snap, ev[e].req)
        /\ ~ev[e].result.allowed

\* the call of the gateway has been through Evaluate
Evaluated == \E i \in DOMAIN trace : trace[i] = "evaluate"
Returned == gw.pc = "returned"
Records(kind) == { i \in DOMAIN audit : audit[i].kind = kind }

\* C2: a denied call is never forwarded.  An outbound call to a tool service is
\* started only for a request for which Evaluate returned allowed = true; when it
\* returned allowed = false the response is 403 and no outbound call is started.
DeniedNeverForwarded ==
    /\ gw.pc = "logdecision" =>
          [allowed |-> gw.allowed, reason |-> gw.reason]
              \in EvalOutcomes(policies, GwRequest(gw))
    /\ (outbound > 0 \/ gw.pc = "inflight") => (Evaluated /\ gw.allowed)
    /\ (Evaluated /\ ~gw.allowed) =>
          /\ outbound = 0
          /\ \A i \in DOMAIN trace : trace[i] # "outbound"
          /\ gw.pc \in {"logdecision", "deny", "returned"}
          /\ Returned => gw.status = 403

\* a request for a registered tool was denied by the policy and has returned
DeniedCallStopped ==
    /\ Returned
    /\ Evaluated
    /\ ~gw.allowed
    /\ gw.tool \in ToolRegistry
    /\ gw.status = 403
    /\ outbound = 0

\* the request is turned down before Evaluate: its path, its header or its body
RejectedEarly == BadPath(gw.path) \/ gw.agentID = "" \/ BadBody(gw.body)

\* C9 as stated: every returned invocation of HandleRequest, the ones rejected with
\* a client error included, has made exactly one decision record.
DecisionRecordForEveryCall ==
    Returned => Cardinality(Records("decision")) = 1

\* C9: an invocation of HandleRequest that reaches Evaluate makes exactly one
\* decision record, of its agent, tool, action, decision and fingerprint, whether
\* the call is allowed, denied or allowed for a tool that is not registered; an
\* invocation rejected for its path, its missing agent header or its body returns
\* 400 and makes no decision record.
DecisionRecordPerEvaluation ==
    /\ Cardinality(Records("decision")) <= 1
    /\ Returned =>
          IF RejectedEarly
          THEN /\ Records("decision") = {}
               /\ audit = <<>>
               /\ gw.status = 400
               /\ ~Evaluated
          ELSE /\ Evaluated
               /\ Cardinality(Records("decision")) = 1
               /\ audit[1] = [kind |-> "decision", agentID |-> gw.agentID,
                              tool |-> gw.tool, action |-> gw.action,
                              allowed |-> gw.allowed, reason |-> gw.reason,
                              hash |-> HashParams(gw.params)]

\* a denied call has returned 403 with its one decision record
DeniedCallRecorded ==
    /\ Returned
    /\ gw.status = 403
    /\ Cardinality(Records("decision")) = 1
    /\ ~audit[1].allowed
    /\ audit[1].reason # ""

\* C10 as stated: every returned call that Evaluate allowed has made exactly one
\* forwarding record, the tool being registered or not; a denied call none.
ForwardRecordForEveryAllow ==
    Returned =>
        Cardinality(Records("forward")) = IF Evaluated /\ gw.allowed THEN 1 ELSE 0

\* C10: a call that Evaluate allowed and whose tool is registered makes, after its
\* decision record, exactly one forwarding record, also when the outbound request
\* cannot be built, the outbound call fails or the copy of the answer fails; an
\* allowed call for a tool that is not registered returns 400 with its decision
\* record only, and a denied or rejected call makes no forwarding record.
ForwardRecordPerForward ==
    /\ Cardinality(Records("forward")) <= 1
    /\ \A i \in Records("forward") : i = 2 /\ audit[1].kind = "decision"
    /\ Returned =>
          IF Evaluated /\ gw.allowed /\ gw.tool \in {"payments", "files"}
          THEN /\ Cardinality(Records("forward")) = 1
               /\ audit[2] = [kind |-> "forward", tool |-> gw.tool, action |-> gw.action]
          ELSE /\ Records("forward") = {}
               /\ (Evaluated /\ gw.allowed) => (gw.status = 400 /\ Len(audit) = 1)

\* an allowed call whose outbound call failed has returned 500 with its forwarding
\* record
FailedForwardRecorded ==
    /\ Returned
    /\ gw.allowed
    /\ gw.err
    /\ gw.status = 500
    /\ outbound = 1
    /\ Cardinality(Records("forward")) = 1

\* the documents of the model that parse and validate, and the policies they give
GoodDocs == {CappedDoc, OpenDoc, MailDoc}
GoodPolicies ==
    { Policy("1", CappedAgents), Policy("2", OpenAgents), Policy("4", MailDoc.doc.agents) }

\* the file is gone, a directory, unparsable or invalid
FileBad(name) ==
    \/ name \notin DOMAIN files
    \/ files[name].dir
    \/ files[name].data \in {YamlError, NoVersionDoc, NoActionsDoc, NoIdDoc, NoToolDoc}

CreateOrModify == "Write" \in wev.Op \/ "Create" \in wev.Op

FailedReloadStep ==
    (wpc = "read" /\ wpc' # "read" /\ watching /\ FileBad(wev.Name)) =>
        /\ policies' = policies
        /\ werr'
        /\ wpc' = "select"

\* C5: a failed reload keeps the last-good entry.  When the watcher handles a
\* create-or-modify event for a source and the file is unreadable, unparsable or
\* invalid, loadPolicyFile returns its error without writing the store: the store is
\* the one the watcher found when it took the event, the entry of the source and
\* every other entry; and no stored Policy ever comes from an invalid parse.
FailedReloadKeepsStore ==
    /\ [](\A n \in DOMAIN policies : policies[n] \in GoodPolicies)
    /\ []((watching /\ werr /\ CreateOrModify) => policies = before)
    /\ [][FailedReloadStep]_vars

\* the reload of a source that is in the store has failed on a bad file
FailedReloadOfStored ==
    /\ watching
    /\ wpc = "select"
    /\ werr
    /\ CreateOrModify
    /\ wev.Name \in DOMAIN policies
    /\ FileBad(wev.Name)
    /\ policies = before

\* C6: load isolation.  NewPolicyEngine fails only when the directory cannot be
\* read; once it has returned, and before anything changes the directory, the store
\* holds exactly the recognized files with a valid document, each with its parsed
\* Policy, and no entry for a malformed or invalid file, whatever the order in
\* which the files were enumerated.
LoadIsolation ==
    /\ engine = "failed" => ~dirExists
    /\ (engine = "ok" /\ fsOps = 0) =>
          \A n \in FileNames :
              IF /\ n \in DOMAIN files
                 /\ ~files[n].dir
                 /\ Ext(n) \in {".yaml", ".yml"}
                 /\ files[n].data \in GoodDocs
              THEN /\ n \in DOMAIN policies
                   /\ policies[n] = Unmarshal(files[n].data).policy
                   /\ policies[n] \in GoodPolicies
              ELSE n \notin DOMAIN policies

\* the constructor has returned an engine that holds the valid file of a directory
\* whose other file has no version
InvalidFileSkipped ==
    /\ engine = "ok"
    /\ fsOps = 0
    /\ FileA \in DOMAIN files
    /\ files[FileA].data = NoVersionDoc
    /\ FileA \notin DOMAIN policies
    /\ FileB \in DOMAIN policies

\* no stored Policy has an entry for the agent of the request
AgentUnknown(store, req) ==
    \A n \in DOMAIN store :
        \A i \in 1..Len(store[n].Agents) : store[n].Agents[i].ID # req.agentID

OnlyLoadAdds ==
    \A n \in FileNames :
        (n \notin DOMAIN policies /\ n \in DOMAIN policies') =>
            /\ wpc = "publish"
            /\ wev.Name = n
            /\ policies'[n] = wpolicy
            /\ wpolicy \in GoodPolicies

\* C7: removal revokes grants.  When the watcher has handled a remove event for a
\* source, the store has no entry for it and every other entry is as it was; a
\* request of an agent that no stored Policy names is denied in every order of the
\* scan; and a source that is not in the store enters it only by a successful load
\* of that source.
RemovalRevokes ==
    /\ [](wpc = "rmunlock" =>
            /\ wev.Name \notin DOMAIN policies
            /\ DOMAIN policies = DOMAIN before \ {wev.Name}
            /\ \A n \in DOMAIN policies : policies[n] = before[n])
    /\ [](\A req \in Requests :
            AgentUnknown(policies, req) =>
                \A d \in EvalOutcomes(policies, req) : ~d.allowed)
    /\ [][OnlyLoadAdds]_vars

\* the removal of a source has been handled: a request that was allowed through it
\* is denied, and the other entries are still there
RemovedAgentDenied ==
    /\ wpc = "select"
    /\ wev.Op = {"Remove"}
    /\ wev.Name \in DOMAIN before
    /\ wev.Name \notin DOMAIN policies
    /\ policies # <<>>
    /\ \E req \in Requests :
          /\ \E d \in EvalOutcomes(before, req) : d.allowed
          /\ AgentUnknown(policies, req)
          /\ \A d \in EvalOutcomes(policies, req) : ~d.allowed

\* loadPolicyFile publishes, for a source of the store, the document the entry of
\* that source was loaded from
UnchangedReload ==
    /\ wpc = "publish"
    /\ wpc' = "unlock"
    /\ wev.Name \in DOMAIN policies
    /\ wdata = loadedFrom[wev.Name]

\* C8 as stated: after the reload of an unchanged document Evaluate returns, for
\* every request, the result it returned before.
ReloadKeepsResult ==
    [][UnchangedReload =>
         \A req \in Requests :
            \A d1 \in EvalOutcomes(policies, req), d2 \in EvalOutcomes(policies', req) :
                d1 = d2]_vars

\* C8: reload idempotence.  The reload of a source whose document is unchanged
\* leaves, for every request, the set of results Evaluate can return as it was: a
\* request with one possible result before the reload has the same one after it,
\* and a request for which stored allowances disagree keeps its possible results,
\* of which each call returns the one its scan order meets first.
ReloadKeepsOutcomes ==
    [][UnchangedReload =>
         /\ DOMAIN policies' = DOMAIN policies
         /\ \A req \in Requests :
              EvalOutcomes(policies', req) = EvalOutcomes(policies, req)]_vars

\* an unchanged document has been republished into a store of two sources
UnchangedRepublished ==
    /\ watching
    /\ wpc = "unlock"
    /\ wev.Name \in DOMAIN before
    /\ CreateOrModify
    /\ policies = before
    /\ Cardinality(DOMAIN policies) >= 2

\* the conditions and the parameters of a finished call on the one allowance
CondOf(e) == ev[e].snap[FileA].Agents[1].Allow[1].Conditions.m
ParamsOf(e) == ev[e].req.params
OnAllowance(e) == ev[e].pc = "done" /\ ev[e].req.action = "create"

Without(m, k) == [x \in DOMAIN m \ {k} |-> m[x]]

\* what a conditions map gives for a parameter set
Outcome(c, p) ==
    IF checkConditions(c, p).err
    THEN [allowed |-> FALSE, reason |-> checkConditions(c, p).msg]
    ELSE [allowed |-> TRUE, reason |-> ""]

\* C11: a condition constrains only a supplied parameter.  When the request has no
\* amount, the result is the one the allowance gives without its max_amount; the
\* same for currency and currencies, for path and folder_prefix, whatever the
\* configured value; a request with none of the three is allowed by the matching
\* allowance whatever its conditions.
AbsentParameterPasses ==
    \A e \in Evaluators :
        OnAllowance(e) =>
            /\ "amount" \notin DOMAIN ParamsOf(e) =>
                  /\ ev[e].result = Outcome(Without(CondOf(e), "max_amount"), ParamsOf(e))
                  /\ ev[e].result.reason \notin
                        {"amount must be a number", "max_amount must be a number"}
            /\ "currency" \notin DOMAIN ParamsOf(e) =>
                  /\ ev[e].result = Outcome(Without(CondOf(e), "currencies"), ParamsOf(e))
                  /\ ev[e].result.reason # "currency must be a string"
            /\ "path" \notin DOMAIN ParamsOf(e) =>
                  /\ ev[e].result = Outcome(Without(CondOf(e), "folder_prefix"), ParamsOf(e))
                  /\ ev[e].result.reason # "path must be a string"
            /\ DOMAIN ParamsOf(e) = {} => ev[e].result = [allowed |-> TRUE, reason |-> ""]

\* a request without parameters was allowed by an allowance that has the three
\* conditions
BareRequestAllowed ==
    \E e \in Evaluators :
        /\ OnAllowance(e)
        /\ DOMAIN ParamsOf(e) = {}
        /\ DOMAIN CondOf(e) = {"max_amount", "currencies", "folder_prefix"}
        /\ CondOf(e)["currencies"].t = "list"
        /\ ev[e].result.allowed

\* the decimal text of the number h/2, h >= 0
Decimal(h) == IF h % 2 = 0 THEN Digits(h \div 2) ELSE Digits(h \div 2) \o ".5"

\* a numeric amount meets a numeric max_amount, the other conditions passing
BoundApplies(e) ==
    /\ OnAllowance(e)
    /\ "max_amount" \in DOMAIN CondOf(e)
    /\ CondOf(e)["max_amount"].t = "num"
    /\ "amount" \in DOMAIN ParamsOf(e)
    /\ ParamsOf(e)["amount"].t = "num"
    /\ Outcome(Without(CondOf(e), "max_amount"), ParamsOf(e)).allowed

\* C12: max_amount is an inclusive upper bound.  With a numeric max_amount M and a
\* numeric amount a, the other conditions passing, the call is allowed exactly when
\* a <= M, and when a > M the reason of the denial names the configured bound M.
MaxAmountInclusive ==
    \A e \in Evaluators :
        BoundApplies(e) =>
            /\ ev[e].result.allowed <=>
                  ParamsOf(e)["amount"].v <= CondOf(e)["max_amount"].v
            /\ ParamsOf(e)["amount"].v > CondOf(e)["max_amount"].v =>
                  ev[e].result.reason =
                      "Amount exceeds max_amount=" \o Decimal(CondOf(e)["max_amount"].v)

\* the condition whose check fails, the checks taken in the order of the code
FailingCondition(c, p) ==
    IF CheckMaxAmount(c, p).err THEN "max_amount"
    ELSE IF CheckCurrencies(c, p).err THEN "currencies"
    ELSE IF CheckFolderPrefix(c, p).err THEN "folder_prefix"
    ELSE "none"

\* two parameter sets with the same keys and types: they differ in values only
SameShape(p, q) ==
    /\ DOMAIN p = DOMAIN q
    /\ \A k \in DOMAIN p : p[k].t = q[k].t

\* C13: a denial reason carries no request parameter value.  A request that differs
\* from a denied one only in the values of its parameters and fails the same
\* condition of the same allowance gets the same reason.
ReasonHidesParameters ==
    \A e \in Evaluators :
        (OnAllowance(e) /\ ~ev[e].result.allowed) =>
            \A q \in ParamSets :
                ( /\ SameShape(ParamsOf(e), q)
                  /\ FailingCondition(CondOf(e), q)
                        = FailingCondition(CondOf(e), ParamsOf(e)) ) =>
                    Outcome(CondOf(e), q).reason = ev[e].result.reason

\* C14: cancellation propagates to the outbound call.  Once the caller has gone
\* while the outbound call is in flight, the call ends by an error of the aborted
\* request: it neither completes with the downstream's answer nor runs into the
\* client's timeout.
CancellationAborts ==
    [][(gw.pc = "inflight" /\ gw.cancelledAt = "inflight" /\ gw'.pc # "inflight") =>
          gw'.cause \in {"canceled", "unreachable"}]_vars

\* the path is /tools/{tool}/{action}: three segments, the tool and the action not
\* empty
ExactShape(path) ==
    /\ Len(PathParts(path)) = 3
    /\ PathParts(path)[1] = "tools"
    /\ PathParts(path)[2] # ""
    /\ PathParts(path)[3] # ""

\* a well-formed request for a tool the gateway has no address for has returned
UnknownToolReturned ==
    /\ Returned
    /\ ExactShape(gw.path)
    /\ gw.agentID # ""
    /\ ~BadBody(gw.body)
    /\ PathParts(gw.path)[2] \notin {"payments", "files"}

\* C15 as stated: a well-formed request for an unregistered tool gets 400, whether
\* Evaluate allows or denies it.
UnknownToolAlways400 ==
    UnknownToolReturned => gw.status = 400

\* C15: a well-formed request for a tool that is not in the registry is never
\* forwarded and gets a client error: 400 when Evaluate allows the call, and the 403
\* of the denial when Evaluate denies it, the registry being consulted only for an
\* allowed call.
UnknownToolRejected ==
    /\ UnknownToolReturned =>
          /\ Evaluated
          /\ gw.status = IF gw.allowed THEN 400 ELSE 403
          /\ outbound = 0
          /\ Records("forward") = {}
    /\ gw.pc \in {"forward", "inflight", "logforward", "finish"} =>
          gw.tool \in {"payments", "files"}

\* an allowed call for a tool without an address has returned 400
UnknownToolRefused ==
    /\ UnknownToolReturned
    /\ gw.allowed
    /\ gw.status = 400
    /\ gw.tool = "mail"

\* C16: a forwarding failure surfaces as a gateway-side 5xx.  An allowed call whose
\* outbound step returned an error (no connection, timeout, a failed copy of the
\* downstream body) answers its caller with a 5xx status; at most one outbound call
\* is made; a downstream answer that was copied is returned with its own status.
ForwardFailureIs5xx ==
    /\ outbound <= 1
    /\ (Returned /\ Evaluated /\ gw.allowed /\ gw.err) => gw.status \in 500..599
    /\ (Returned /\ gw.downstream # 0 /\ ~gw.err) => gw.status = gw.downstream

\* every recognized file that holds a valid document is in the store with it
StoreCurrent ==
    \A n \in DOMAIN files :
        (Ext(n) \in {".yaml", ".yml"} /\ ~files[n].dir /\ files[n].data \in GoodDocs) =>
            /\ n \in DOMAIN policies
            /\ policies[n] = Unmarshal(files[n].data).policy

\* C17: hot-reload liveness.  Unless the directory could not be read or the watcher
\* was closed, the store comes to hold, and keeps, the valid content of every
\* recognized file, whenever after the start of the initial load it was written.
HotReloadLive == <>[](closed \/ engine = "failed" \/ StoreCurrent)

\* C18: a request of the wrong shape is rejected before evaluation.  A request whose
\* path is not exactly /tools/{tool}/{action} with a tool and an action that are not
\* empty gets 400; Evaluate is not called and nothing is forwarded for it.
WrongShapeRejected ==
    (gw.pc # "idle" /\ ~ExactShape(gw.path)) =>
        /\ Returned
        /\ gw.status = 400
        /\ ~Evaluated
        /\ audit = <<>>
        /\ outbound = 0

\* the watcher waits in its select and no delivered event is left to handle
EventsHandled == watching /\ ~closed /\ wpc = "select" /\ events = <<>>

\* C19: the store tracks the existence of sources.  When the watcher has handled
\* all delivered events, the last of them the disappearance of a source, by deletion
\* or by being renamed away, and the file has not come back, the store has no entry
\* for that source.
StoreTracksSources ==
    ( /\ EventsHandled
      /\ wev.Op \cap {"Remove", "Rename"} # {}
      /\ wev.Name \notin DOMAIN files ) =>
        wev.Name \notin DOMAIN policies

\* C20: only recognized policy files are published.  Every key of the store is the
\* name of a file with one of the extensions .yaml and .yml, and a step of the
\* loader for a file of another extension leaves the store as it is.
OnlyRecognizedPublished ==
    /\ [](\A n \in DOMAIN policies : Ext(n) \in {".yaml", ".yml"})
    /\ [][(wpc = "publish" /\ Ext(wev.Name) \notin {".yaml", ".yml"}) =>
             policies' = policies]_vars

\* an error of the notification library has been received by the watcher
ErrorReceived == watching /\ ~closed /\ errsSent > watchErrs

\* the watcher takes an error from pe.watcher.Errors
ErrorStep == ~closed' /\ watchErrs' < watchErrs

\* the watcher's goroutine returns
WatcherExits == watching /\ wpc # "exited" /\ wpc' = "exited"

\* the last event the watcher handled has reached the store: a create-or-modify of
\* a file that holds a valid document left its Policy, a removal left no entry
LastEventApplied ==
    /\ (CreateOrModify /\ LoadOk(wev.Name)) =>
          /\ wev.Name \in DOMAIN policies
          /\ policies[wev.Name] = Unmarshal(files[wev.Name].data).policy
    /\ ("Remove" \in wev.Op /\ wev.Name \notin DOMAIN files) =>
          wev.Name \notin DOMAIN policies

\* C21: watcher resilience and quiet exit.  An error received from the error channel
\* while the channels are open leaves the watcher in its loop and the store as it
\* is, and the events delivered after it are still handled and applied to the
\* store; the watcher returns only when a channel is closed; once it has returned
\* the store never changes, the lock is free, and every Evaluate call reads that
\* last store and returns.
WatcherResilient ==
    /\ [][ErrorStep => (wpc' = "select" /\ policies' = policies)]_vars
    /\ (ErrorReceived /\ events # <<>>) ~> (closed \/ (events = <<>> /\ wpc = "select"))
    /\ []((ErrorReceived /\ EventsHandled /\ wev.Op # {}) => LastEventApplied)
    /\ [][WatcherExits => closed]_vars
    /\ [][wpc = "exited" => policies' = policies]_vars
    /\ [](wpc = "exited" => (~mu.writer /\ ~mu.waiting))
    /\ \A e \in Evaluators :
          /\ []((wpc = "exited" /\ Reading(e)) => ev[e].snap = policies)
          /\ Reading(e) ~> (ev[e].pc = "done")

\* the watcher has returned after Close; before that an error was delivered and a
\* reload replaced the Policy of the source; an Evaluate call has answered from
\* the store the watcher left
AnsweredAfterExit ==
    /\ closed
    /\ wpc = "exited"
    /\ errsSent > 0
    /\ FileA \in DOMAIN policies
    /\ policies[FileA] = Unmarshal(OpenDoc).policy
    /\ \E e \in Evaluators :
          /\ ev[e].pc = "done"
          /\ ev[e].snap = policies
          /\ ev[e].result \in EvalOutcomes(policies, ev[e].req)

\* the watcher reads the next event from pe.watcher.Events
TakesEvent == ~closed' /\ events # <<>> /\ events' = Tail(events)

\* a reload or a removal is in progress: from the quiet-period wait to the unlock
Handling ==
    wpc \in {"sleep", "read", "lock", "lockwait", "publish", "unlock",
             "rmlock", "rmlockwait", "delete", "rmunlock"}

\* C22: store writes are strictly sequential.  The watcher reads an event only from
\* its select, when the event before has been handled to its end (no load in
\* progress, the lock neither held nor asked for by a writer) and the initial load
\* has finished; the event being handled changes only by such a read; and no
\* writer asks for the lock while another holds it.
StrictlySequential ==
    /\ [][TakesEvent =>
            /\ wpc = "select"
            /\ ~Handling
            /\ ~mu.writer /\ ~mu.waiting
            /\ wpolicy = NoPolicy
            /\ engine = "ok" /\ entries = {}]_vars
    /\ [][(watching /\ wev' # wev) => TakesEvent]_vars
    /\ [](wev.Op # {} => (engine = "ok" /\ entries = {} /\ watching))
    /\ [](~(mu.writer /\ mu.waiting))

\* the watcher publishes the reload of one event while the next event waits in the
\* channel
NextEventWaits ==
    /\ watching
    /\ wpc = "publish"
    /\ CreateOrModify
    /\ events # <<>>

\* C23: a writer blocks readers for one entry swap only.  An Evaluate call is kept
\* out of the store only while the write lock is held, which is for one assignment
\* or one deletion: while other calls hold the read lock, so that the write lock
\* cannot be held, a call that asks for the read lock gets it.
ReaderWaitsForSwapOnly ==
    /\ mu.writer => wpc \in {"publish", "unlock", "delete", "rmunlock"}
    /\ wpc \in {"sleep", "read", "lock"} => (~mu.writer /\ ~mu.waiting)
    /\ mu.readers > 0 => CanRLock

\* the allowances of policy src that grant the request, in the order of the document
GrantsIn(store, src, req) ==
    MatchesIn(FlatAgents(src, store[src].Agents, 1), req)

\* the decision of the first allowance of policy src that grants the request
FirstIn(store, src, req) ==
    LET fl == FlatAgents(src, store[src].Agents, 1)
    IN ByConditions(fl[FirstOf(MatchesIn(fl, req))].allow, req)

\* every stored allowance that grants the request, with where it sits
Granting(store, req) ==
    UNION { { FlatAgents(src, store[src].Agents, 1)[k] : k \in GrantsIn(store, src, req) } :
            src \in DOMAIN store }

\* two stored allowances disagree for the request: u has no conditions, a condition
\* of f fails
Disagree(u, f, req) ==
    /\ u.allow.Conditions.isNil
    /\ ~ByConditions(f.allow, req).allowed

\* C24 as stated: whenever two stored allowances for the agent, tool and action of
\* a call disagree, Evaluate could have returned (true, "") and could have returned
\* (false, reason of the failing one) for that request and that store, wherever the
\* two sit.
DisagreementEitherWay ==
    \A e \in Evaluators :
        ev[e].pc = "done" =>
            \A u, f \in Granting(ev[e].snap, ev[e].req) :
                Disagree(u, f, ev[e].req) =>
                    /\ [allowed |-> TRUE, reason |-> ""]
                           \in EvalOutcomes(ev[e].snap, ev[e].req)
                    /\ ByConditions(f.allow, ev[e].req)
                           \in EvalOutcomes(ev[e].snap, ev[e].req)

\* C24: the scan order is open across policies only.  The results Evaluate can
\* return for a request are the decisions of the first granting allowance of each
\* stored policy that has one, first in the order of the document (agent entries,
\* then the allow list): allowances that disagree give both results when each is
\* the first grant of its own policy, and within one policy the earlier one always
\* decides.  A finished call has returned one of these results.
DisagreementByScanOrder ==
    /\ \A req \in Requests :
          LET granting == { src \in DOMAIN policies : GrantsIn(policies, src, req) # {} }
          IN /\ EvalOutcomes(policies, req) =
                   IF granting = {} THEN { DefaultDeny(req) }
                   ELSE { FirstIn(policies, src, req) : src \in granting }
             /\ Cardinality(granting) <= 1 => Cardinality(EvalOutcomes(policies, req)) = 1
    /\ \A e \in Evaluators :
          ev[e].pc = "done" =>
              LET granting == { src \in DOMAIN ev[e].snap :
                                   GrantsIn(ev[e].snap, src, ev[e].req) # {} }
              IN IF granting = {} THEN ev[e].result = DefaultDeny(ev[e].req)
                 ELSE /\ ev[e].order[Len(ev[e].order)] \in granting
                      /\ ev[e].result =
                            FirstIn(ev[e].snap, ev[e].order[Len(ev[e].order)], ev[e].req)

\* a call was denied by the capped entry of a policy that holds, in a later agent
\* entry, an allowance without conditions for the same request, while another
\* policy of the store would have allowed it
DeniedByEarlierEntry ==
    \E e \in Evaluators :
        /\ ev[e].pc = "done"
        /\ ~ev[e].result.allowed
        /\ Cardinality(EvalOutcomes(ev[e].snap, ev[e].req)) = 2
        /\ \E src \in DOMAIN ev[e].snap :
              /\ ev[e].order[Len(ev[e].order)] = src
              /\ \E u, f \in Granting(ev[e].snap, ev[e].req) :
                    /\ Disagree(u, f, ev[e].req)
                    /\ u.src = src /\ f.src = src
                    /\ f.idx < u.idx

\* C25: every Policy in the store is valid in every reachable state.  After the
\* initial load and any sequence of reload and remove events, each stored Policy
\* has a non-empty version, every agent entry a non-empty ID, and every allowance
\* a non-empty tool and at least one action.
StoredPoliciesValid ==
    \A n \in DOMAIN policies :
        /\ policies[n].Version # ""
        /\ \A i \in 1..Len(policies[n].Agents) :
              /\ policies[n].Agents[i].ID # ""
              /\ \A j \in 1..Len(policies[n].Agents[i].Allow) :
                    /\ policies[n].Agents[i].Allow[j].Tool # ""
                    /\ Len(policies[n].Agents[i].Allow[j].Actions) >= 1

\* the watcher has handled every event of a directory that was changed as often as
\* the model allows; the store holds policies, and none for a file of the directory
\* whose document fails the validation
InvalidDocumentsKeptOut ==
    /\ EventsHandled
    /\ fsOps = MaxFsOps
    /\ DOMAIN policies # {}
    /\ \E n \in DOMAIN files \ DOMAIN policies :
          /\ ~files[n].dir
          /\ files[n].data \in {NoVersionDoc, NoActionsDoc, NoIdDoc, NoToolDoc}

\* the steps of the call before its i-th that are of the kinds given
Earlier(i, kinds) == { j \in 1..(i - 1) : trace[j] \in kinds }

\* the decision record comes after the return of Evaluate and before any outbound
\* call and any response status
DecisionRecordInOrder ==
    \A i \in DOMAIN trace :
        trace[i] = "decision" =>
            /\ Earlier(i, {"evaluate"}) # {}
            /\ Earlier(i, {"outbound", "status"}) = {}

\* C26 as stated: the decision record is emitted after Evaluate returns and before
\* any outbound call is started and any response status is written, and the
\* forwarding record only after the outbound call has returned.
AuditPrecedesAction ==
    /\ DecisionRecordInOrder
    /\ \A i \in DOMAIN trace :
          trace[i] = "forward" => Earlier(i, {"outbound-done"}) # {}

\* C26: audit precedes action.  The decision record is emitted after Evaluate
\* returns and before any outbound call is started and any response status is
\* written; the forwarding record is emitted after the decision record and after
\* forwardRequest has returned: after the outbound call has returned, with success
\* or with an error, or with no outbound call made when the outbound request could
\* not be built.
AuditFollowsEachStep ==
    /\ DecisionRecordInOrder
    /\ \A i \in DOMAIN trace :
          trace[i] = "forward" =>
              /\ Earlier(i, {"decision"}) # {}
              /\ Cardinality(Earlier(i, {"outbound"})) =
                    Cardinality(Earlier(i, {"outbound-done"}))
              /\ Earlier(i, {"outbound-done"}) = {} =>
                    (InvalidURL(gw.action) /\ gw.err /\ outbound = 0)
    /\ (gw.pc = "inflight") => Records("forward") = {}

\* an allowed call whose outbound request could not be built has returned 500: no
\* outbound call was made, and it has its decision record and its forwarding record
UnbuiltForwardRecorded ==
    /\ Returned
    /\ gw.allowed
    /\ InvalidURL(gw.action)
    /\ outbound = 0
    /\ gw.status = 500
    /\ trace = <<"evaluate", "decision", "forward", "status">>
    /\ Cardinality(Records("forward")) = 1

====
